---- MODULE Spec2Model ----
(***************************************************************************)
(* Connection lifecycle of the extension's background WebSocket client     *)
(* (packages/chrome-extension/src/background/ws-client.ts).                *)
(*                                                                         *)
(* The module-level state of ws-client.ts is kept in one variable per      *)
(* module variable; the browser objects it drives (WebSocket instances,    *)
(* setInterval/setTimeout timers, the chrome.alarms alarm, the promise     *)
(* returned by connectToSession) are kept next to it.  Every function of   *)
(* the source is an operator from a state record to a state record, so     *)
(* that a handler which calls stopHeartbeat() and stopKeepaliveAlarm() is  *)
(* the composition of the same operators here.  Handlers run to            *)
(* completion: one action is one callback.                                 *)
(*                                                                         *)
(* The DevTools panel's view of the connection                             *)
(* (packages/chrome-extension/src/devtools/composables/useConnection.ts)   *)
(* is modelled next to it: its cached status, its poll timer, and the      *)
(* messages between panel and background that are under way.  Spec and     *)
(* FairSpec are the background on its own; UISpec is the panel driving     *)
(* the background.                                                         *)
(***************************************************************************)
EXTENDS Integers, Sequences, FiniteSets, TLC

\* ------------------------------------------------------------------ bounds
MaxTransports == 2      \* WebSocket objects created in one run
MaxTimers == 2          \* distinct timer ids handed out per timer kind
MaxReplies == 1         \* responses to the panel's requests under way at once

\* ------------------------------------------------------------- value sets
null == 0               \* JS null / falsy handle
Ws == 1..MaxTransports
TimerIds == 1..MaxTimers

\* arguments of connectToSession(sessionName, port, tabId)
ConnectInputs ==
  { [sessionName |-> "sessionX", port |-> 9001, tabId |-> 42],
    [sessionName |-> "sessionY", port |-> 9002, tabId |-> 43] }
Tabs == {42, 43}
NoParams == [sessionName |-> "null", port |-> null, tabId |-> null]

\* inbound frames: heartbeat reply, unparsable text, and a tool request told
\* apart by how its handling ends: the response goes out, or it does not
\* (handleToolRequest threw, or the socket was no longer open when it returned)
Frames == {"pong", "malformed", "tool-answered", "tool-dropped"}

\* `currentConnection = null`
NoConnection == [ws |-> null, sessionName |-> "null", port |-> null, tabId |-> null]

\* chrome.devtools.inspectedWindow.tabId, the tab the panel asks to attach
InspectedTab == 42

\* the panel's `connectionStatus` ref when not connected, which is also the
\* background's answer to GET_CONNECTION_STATUS when not connected
NotConnected == [connected |-> FALSE, sessionName |-> "null", tabId |-> null]
Statuses ==
  {NotConnected} \cup
  { [connected |-> TRUE, sessionName |-> in.sessionName, tabId |-> t] :
      in \in ConnectInputs, t \in Tabs }
\* responses on their way to the panel: to the GET_CONNECTION_STATUS of a poll
\* or of getConnectionStatus(), and to DISCONNECT_SESSION
Replies ==
  [kind : {"poll", "get"}, status : Statuses] \cup
  [kind : {"disconnect"}, status : {NotConnected}]

VARIABLES
  currentConnection,   \* the slot: NoConnection or [ws, sessionName, port, tabId]
  heartbeatInterval,   \* handle variable: null or a timer id
  heartbeatTimeout,    \* handle variable: null or a timer id
  intervals,           \* armed setInterval timers: id -> ws of the closure (null = not armed)
  timeouts,            \* armed setTimeout timers:  id -> ws of the closure (null = not armed)
  alarm,               \* chrome.alarms: KEEPALIVE_ALARM_NAME is registered
  readyState,          \* per WebSocket: "NONE" (not created) or its readyState
  closePending,        \* per WebSocket: a close event is queued for delivery
  params,              \* per WebSocket: the connect arguments its handlers close over
  promise,             \* per WebSocket: state of the promise of its connect call
  notified,            \* per WebSocket: CONNECTION_CLOSED messages emitted on its account
  lastSent,            \* type of the last frame that went out on a socket
  connectionStatus,    \* panel: the cached ConnectionStatus
  statusPollTimer,     \* panel: the status poll interval is armed
  replies,             \* panel: responses to its requests not yet received
  awaiting,            \* panel: the WebSockets of the connects whose
                       \* CONNECT_SESSION response it has not yet received
  closedConsumed,      \* CONNECTION_CLOSED messages received by the panel or lost
  earlierConnects      \* history: the WebSockets still connecting whose connect
                       \* call preceded the last firing in which the alarm
                       \* deregistered itself for lack of a Connection

vars == <<currentConnection, heartbeatInterval, heartbeatTimeout, intervals,
          timeouts, alarm, readyState, closePending, params, promise,
          notified, lastSent, connectionStatus, statusPollTimer, replies,
          awaiting, closedConsumed, earlierConnects>>
uiVars == <<connectionStatus, statusPollTimer, replies, awaiting, closedConsumed>>

\* the state as one record, the argument and result of every operation
State ==
  [ currentConnection |-> currentConnection,
    heartbeatInterval |-> heartbeatInterval,
    heartbeatTimeout  |-> heartbeatTimeout,
    intervals         |-> intervals,
    timeouts          |-> timeouts,
    alarm             |-> alarm,
    readyState        |-> readyState,
    closePending      |-> closePending,
    params            |-> params,
    promise           |-> promise,
    notified          |-> notified,
    lastSent          |-> lastSent ]

Apply(s) ==
  /\ currentConnection' = s.currentConnection
  /\ heartbeatInterval' = s.heartbeatInterval
  /\ heartbeatTimeout'  = s.heartbeatTimeout
  /\ intervals'         = s.intervals
  /\ timeouts'          = s.timeouts
  /\ alarm'             = s.alarm
  /\ readyState'        = s.readyState
  /\ closePending'      = s.closePending
  /\ params'            = s.params
  /\ promise'           = s.promise
  /\ notified'          = s.notified
  /\ lastSent'          = s.lastSent

\* the panel's state as one record
Ui == [connectionStatus |-> connectionStatus, statusPollTimer |-> statusPollTimer]

ApplyUi(u) ==
  /\ connectionStatus' = u.connectionStatus
  /\ statusPollTimer'  = u.statusPollTimer

\* ------------------------------------------------- browser primitives used
\* WebSocket.close(): starts the closing handshake of a socket that is
\* connecting or open and queues its close event; no effect otherwise.
wsClose(s, ws) ==
  IF s.readyState[ws] \in {"CONNECTING", "OPEN"}
  THEN [s EXCEPT !.readyState[ws] = "CLOSING", !.closePending[ws] = TRUE]
  ELSE s

\* WebSocket.send(): the frame goes out on an open socket and is discarded
\* on a closing or closed one.
wsSend(s, ws, frame) ==
  IF s.readyState[ws] = "OPEN" THEN [s EXCEPT !.lastSent = frame] ELSE s

\* clearTimeout / clearInterval behind the `if (handle)` test
clearTimer(table, handle) ==
  IF handle # null THEN [table EXCEPT ![handle] = null] ELSE table

\* id returned by setTimeout / setInterval: one that names no armed timer and
\* is not the value still held in the handle variable
FreshIds(table, handle) == {i \in TimerIds : table[i] = null /\ i # handle}
freshTimer(table, handle) ==
  CHOOSE i \in FreshIds(table, handle) : \A j \in FreshIds(table, handle) : i <= j

\* chrome.runtime.sendMessage({type:'CONNECTION_CLOSED'}).catch(() => {})
sendConnectionClosed(s, ws) ==
  [s EXCEPT !.notified[ws] = @ + 1]

\* ------------------------------------------------------ keepalive alarm
startKeepaliveAlarm(s) == [s EXCEPT !.alarm = TRUE]

stopKeepaliveAlarm(s) == [s EXCEPT !.alarm = FALSE]

\* ------------------------------------------------ application heartbeat
stopHeartbeat(s) ==
  [s EXCEPT !.intervals = clearTimer(s.intervals, s.heartbeatInterval),
            !.heartbeatInterval = null,
            !.timeouts = clearTimer(s.timeouts, s.heartbeatTimeout),
            !.heartbeatTimeout = null]

startHeartbeat(s, ws) ==
  LET s1 == stopHeartbeat(s)
      id == freshTimer(s1.intervals, s1.heartbeatInterval)
  IN  [s1 EXCEPT !.intervals[id] = ws, !.heartbeatInterval = id]

\* variant: a ping cycle arms its timeout without clearing a lingering one
heartbeatTickKeepsTimeout(s, ws) ==
  IF s.readyState[ws] = "OPEN"
  THEN LET s2 == wsSend(s, ws, "ping")
           id == freshTimer(s2.timeouts, s2.heartbeatTimeout)
       IN  [s2 EXCEPT !.timeouts[id] = ws, !.heartbeatTimeout = id]
  ELSE s

\* the setInterval callback of startHeartbeat(ws)
heartbeatTick(s, ws) ==
  IF s.readyState[ws] = "OPEN"
  THEN LET s1 == [s EXCEPT !.timeouts = clearTimer(s.timeouts, s.heartbeatTimeout),
                           !.heartbeatTimeout = null]
           s2 == wsSend(s1, ws, "ping")
           id == freshTimer(s2.timeouts, s2.heartbeatTimeout)
       IN  [s2 EXCEPT !.timeouts[id] = ws, !.heartbeatTimeout = id]
  ELSE s

\* variant: the timeout callback only logs
pongTimeoutOnlyLogs(s, ws) == s

\* the setTimeout callback armed by a ping cycle: ws.close()
pongTimeout(s, ws) == wsClose(s, ws)

handlePong(s) ==
  [s EXCEPT !.timeouts = clearTimer(s.timeouts, s.heartbeatTimeout),
            !.heartbeatTimeout = null]

\* ------------------------------------------------------------ operations
\* variant: the stale branch forgets stopHeartbeat()
handleKeepaliveAlarmKeepsHeartbeat(s) ==
  IF s.currentConnection = NoConnection
  THEN stopKeepaliveAlarm(s)
  ELSE IF s.readyState[s.currentConnection.ws] # "OPEN"
       THEN LET ws == s.currentConnection.ws
                s1 == [s EXCEPT !.currentConnection = NoConnection]
            IN  sendConnectionClosed(stopKeepaliveAlarm(s1), ws)
       ELSE s

\* variant: the no-connection branch returns without stopKeepaliveAlarm()
handleKeepaliveAlarmKeepsAlarm(s) ==
  IF s.currentConnection = NoConnection
  THEN s
  ELSE IF s.readyState[s.currentConnection.ws] # "OPEN"
       THEN LET ws == s.currentConnection.ws
                s1 == [s EXCEPT !.currentConnection = NoConnection]
            IN  sendConnectionClosed(stopKeepaliveAlarm(stopHeartbeat(s1)), ws)
       ELSE s

handleKeepaliveAlarm(s) ==
  IF s.currentConnection = NoConnection
  THEN stopKeepaliveAlarm(s)
  ELSE IF s.readyState[s.currentConnection.ws] # "OPEN"
       THEN LET ws == s.currentConnection.ws
                s1 == [s EXCEPT !.currentConnection = NoConnection]
            IN  sendConnectionClosed(stopKeepaliveAlarm(stopHeartbeat(s1)), ws)
       ELSE s

\* `if (currentConnection) { ... }` at the start of connectToSession, and the
\* whole of disconnectSession
teardownCurrent(s) ==
  IF s.currentConnection # NoConnection
  THEN LET s1 == stopKeepaliveAlarm(stopHeartbeat(s))
           s2 == wsClose(s1, s1.currentConnection.ws)
       IN  [s2 EXCEPT !.currentConnection = NoConnection]
  ELSE s

\* the WebSocket object `new WebSocket(...)` returns
newWs(s) == CHOOSE t \in Ws : s.readyState[t] = "NONE" /\ \A u \in Ws : s.readyState[u] = "NONE" => t <= u

connectToSession(s, in) ==
  LET s1 == teardownCurrent(s)
      ws == newWs(s1)
  IN  [s1 EXCEPT !.readyState[ws] = "CONNECTING",
                 !.params[ws] = in,
                 !.promise[ws] = "pending"]

\* variant: the open handler forgets startKeepaliveAlarm()
onopenWithoutAlarm(s, ws) ==
  LET s1 == [s EXCEPT !.currentConnection =
                 [ws |-> ws, sessionName |-> s.params[ws].sessionName,
                  port |-> s.params[ws].port, tabId |-> s.params[ws].tabId]]
      s2 == startHeartbeat(s1, ws)
  IN  [s2 EXCEPT !.promise[ws] = IF @ = "pending" THEN "resolved" ELSE @]

onopen(s, ws) ==
  LET s1 == [s EXCEPT !.currentConnection =
                 [ws |-> ws, sessionName |-> s.params[ws].sessionName,
                  port |-> s.params[ws].port, tabId |-> s.params[ws].tabId]]
      s2 == startHeartbeat(startKeepaliveAlarm(s1), ws)
  IN  [s2 EXCEPT !.promise[ws] = IF @ = "pending" THEN "resolved" ELSE @]

\* instance.sendStatusUpdate(tab), also the chrome.tabs.get callback of onopen
sendStatusUpdate(s, ws) == wsSend(s, ws, "EXTENSION_STATUS")

\* instance.disconnect()
instanceDisconnect(s, ws) ==
  [wsClose(s, ws) EXCEPT !.currentConnection = NoConnection]

\* variant: a frame that does not parse closes the socket
onmessageClosesOnBadFrame(s, ws, frame) ==
  IF frame = "malformed" THEN wsClose(s, ws)
  ELSE IF frame = "pong" THEN handlePong(s)
  ELSE IF frame = "tool-answered" THEN wsSend(s, ws, "response")
  ELSE s

\* ws.onmessage: JSON.parse throws and the catch block logs; a pong ends the
\* pending heartbeat wait; anything else goes to handleToolRequest and its
\* response is sent back, unless the dispatcher threw
onmessage(s, ws, frame) ==
  IF frame = "malformed" THEN s
  ELSE IF frame = "pong" THEN handlePong(s)
  ELSE IF frame = "tool-answered" THEN wsSend(s, ws, "response")
  ELSE s

\* variant: a failed connect is retried with the same arguments
onerrorRetries(s, ws) ==
  LET s1 == [s EXCEPT !.promise[ws] = IF @ = "pending" THEN "rejected" ELSE @]
  IN  IF \E t \in Ws : s1.readyState[t] = "NONE"
      THEN [s1 EXCEPT !.readyState[newWs(s1)] = "CONNECTING",
                      !.params[newWs(s1)] = s.params[ws],
                      !.promise[newWs(s1)] = "pending"]
      ELSE s1

onerror(s, ws) ==
  [s EXCEPT !.promise[ws] = IF @ = "pending" THEN "rejected" ELSE @]

\* variant: the close handler forgets stopHeartbeat()
oncloseKeepsHeartbeat(s, ws) ==
  LET s1 == [s EXCEPT !.currentConnection = NoConnection]
  IN  sendConnectionClosed(stopKeepaliveAlarm(s1), ws)

\* variant: the close handler forgets stopKeepaliveAlarm()
oncloseKeepsAlarm(s, ws) ==
  LET s1 == [s EXCEPT !.currentConnection = NoConnection]
  IN  sendConnectionClosed(stopHeartbeat(s1), ws)

onclose(s, ws) ==
  LET s1 == [s EXCEPT !.currentConnection = NoConnection]
  IN  sendConnectionClosed(stopKeepaliveAlarm(stopHeartbeat(s1)), ws)

\* variant: the readyState test is missing
getConnectionStatusTrustsSlot(s) ==
  IF s.currentConnection = NoConnection
  THEN [connected |-> FALSE, sessionName |-> "null", tabId |-> null]
  ELSE [connected |-> TRUE,
        sessionName |-> s.currentConnection.sessionName,
        tabId |-> s.currentConnection.tabId]

getConnectionStatus(s) ==
  IF s.currentConnection = NoConnection
     \/ s.readyState[s.currentConnection.ws] # "OPEN"
  THEN [connected |-> FALSE, sessionName |-> "null", tabId |-> null]
  ELSE [connected |-> TRUE,
        sessionName |-> s.currentConnection.sessionName,
        tabId |-> s.currentConnection.tabId]

updateConnectedTab(s, tabId) ==
  IF s.currentConnection # NoConnection
  THEN [s EXCEPT !.currentConnection.tabId = tabId]
  ELSE s

disconnectSession(s) == teardownCurrent(s)

\* ------------------------------------------------------------------ Init
\* ------------------------------------------- useConnection.ts, the panel
startStatusPolling(u) ==
  IF u.statusPollTimer THEN u ELSE [u EXCEPT !.statusPollTimer = TRUE]

stopStatusPolling(u) ==
  IF u.statusPollTimer THEN [u EXCEPT !.statusPollTimer = FALSE] ELSE u

handleConnectionClosed(u) ==
  stopStatusPolling([u EXCEPT !.connectionStatus = NotConnected])

\* variant: the poll adopts every answer and keeps polling
pollCallbackAdoptsAll(u, status) ==
  [u EXCEPT !.connectionStatus = status]

\* the setInterval callback of startStatusPolling, from the point where the
\* answer to its GET_CONNECTION_STATUS has arrived
pollCallback(u, status) ==
  IF u.connectionStatus.connected /\ ~status.connected
  THEN handleConnectionClosed(u)
  ELSE [u EXCEPT !.connectionStatus = status]

\* the panel's getConnectionStatus(), from the arrival of the answer
uiGetConnectionStatus(u, status) ==
  LET u1 == [u EXCEPT !.connectionStatus = status]
  IN  IF status.connected THEN startStatusPolling(u1) ELSE stopStatusPolling(u1)

\* the panel's connectToSession(session), from the arrival of the response;
\* in holds session.name, session.port and the inspected tab's id
uiConnectToSession(u, success, in) ==
  IF success
  THEN startStatusPolling([u EXCEPT !.connectionStatus =
         [connected |-> TRUE, sessionName |-> in.sessionName, tabId |-> in.tabId]])
  ELSE u

\* the panel's disconnect(), from the arrival of the acknowledgement
disconnect(u) ==
  stopStatusPolling([u EXCEPT !.connectionStatus = NotConnected])

Init ==
  /\ connectionStatus = NotConnected
  /\ statusPollTimer = FALSE
  /\ replies = {}
  /\ awaiting = {}
  /\ closedConsumed = 0
  /\ currentConnection = NoConnection
  /\ heartbeatInterval = null
  /\ heartbeatTimeout = null
  /\ intervals = [i \in TimerIds |-> null]
  /\ timeouts = [i \in TimerIds |-> null]
  /\ alarm = FALSE
  /\ readyState = [t \in Ws |-> "NONE"]
  /\ closePending = [t \in Ws |-> FALSE]
  /\ params = [t \in Ws |-> NoParams]
  /\ promise = [t \in Ws |-> "none"]
  /\ notified = [t \in Ws |-> 0]
  /\ lastSent = "none"
  /\ earlierConnects = {}

\* --------------------------------------------------------------- actions
\* a step that is no keepalive firing and no open or error event
Step(s) == Apply(s) /\ UNCHANGED earlierConnects /\ UNCHANGED uiVars

\* a caller invokes connectToSession
Connect(in) ==
  /\ \E t \in Ws : readyState[t] = "NONE"
  /\ Step(connectToSession(State, in))

\* the transport of ws is established: readyState becomes OPEN, open fires
OnOpen(ws) ==
  /\ readyState[ws] = "CONNECTING"
  /\ Apply(onopen([State EXCEPT !.readyState[ws] = "OPEN"], ws))
  /\ earlierConnects' = IF ws \in earlierConnects THEN earlierConnects \ {ws} ELSE {}
  /\ UNCHANGED uiVars

\* the transport of ws fails (refused while connecting, broken while open):
\* readyState becomes CLOSED, error fires, the close event follows
OnError(ws) ==
  /\ readyState[ws] \in {"CONNECTING", "OPEN"}
  /\ Apply(onerror([State EXCEPT !.readyState[ws] = "CLOSED",
                                  !.closePending[ws] = TRUE], ws))
  /\ earlierConnects' = earlierConnects \ {ws}
  /\ UNCHANGED uiVars

\* the close event of ws is delivered: after close(), after an error, or
\* because the peer closed an open socket
OnClose(ws) ==
  /\ closePending[ws] \/ readyState[ws] = "OPEN"
  /\ Step(onclose([State EXCEPT !.readyState[ws] = "CLOSED",
                                 !.closePending[ws] = FALSE], ws))

\* a frame arrives on an open socket
OnMessage(ws, frame) ==
  /\ readyState[ws] = "OPEN"
  /\ Step(onmessage(State, ws, frame))

\* an armed heartbeat interval fires
HeartbeatTick(id) ==
  /\ intervals[id] # null
  /\ Step(heartbeatTick(State, intervals[id]))

\* an armed pong-timeout fires (and is thereby no longer armed)
PongTimeout(id) ==
  /\ timeouts[id] # null
  /\ Step(pongTimeout([State EXCEPT !.timeouts[id] = null], timeouts[id]))

\* the registered keepalive alarm fires
KeepaliveAlarm ==
  /\ alarm
  /\ Apply(handleKeepaliveAlarm(State))
  /\ earlierConnects' = IF currentConnection = NoConnection
                        THEN {t \in Ws : readyState[t] = "CONNECTING"}
                        ELSE earlierConnects
  /\ UNCHANGED uiVars

Disconnect ==
  Step(disconnectSession(State))

\* the holder of an instance returned by connectToSession calls disconnect()
InstanceDisconnect(ws) ==
  /\ promise[ws] = "resolved"
  /\ Step(instanceDisconnect(State, ws))

InstanceSendStatusUpdate(ws) ==
  /\ promise[ws] = "resolved"
  /\ Step(sendStatusUpdate(State, ws))

UpdateConnectedTab(tabId) ==
  Step(updateConnectedTab(State, tabId))

Next ==
  \/ \E in \in ConnectInputs : Connect(in)
  \/ \E ws \in Ws : OnOpen(ws)
  \/ \E ws \in Ws : OnError(ws)
  \/ \E ws \in Ws : OnClose(ws)
  \/ \E ws \in Ws, frame \in Frames : OnMessage(ws, frame)
  \/ \E id \in TimerIds : HeartbeatTick(id)
  \/ \E id \in TimerIds : PongTimeout(id)
  \/ KeepaliveAlarm
  \/ Disconnect
  \/ \E ws \in Ws : InstanceDisconnect(ws)
  \/ \E ws \in Ws : InstanceSendStatusUpdate(ws)
  \/ \E tabId \in Tabs : UpdateConnectedTab(tabId)

Spec == Init /\ [][Next]_vars

\* the event loop delivers a queued close event: while close events are
\* queued, one of them is eventually delivered
DeliverClose == \E ws \in Ws : closePending[ws] /\ OnClose(ws)
FairSpec == Spec /\ WF_vars(DeliverClose)

\* ------------------------------------------------ the panel's actions
RECURSIVE Emitted(_)
\* CONNECTION_CLOSED messages emitted on account of the WebSockets 1..n
Emitted(n) == IF n = 0 THEN 0 ELSE notified[n] + Emitted(n - 1)
\* CONNECTION_CLOSED messages on their way to the panel
ClosedInFlight == Emitted(MaxTransports) - closedConsumed

\* the panel calls connectToSession(session): CONNECT_SESSION reaches the
\* background, whose handler calls connectToSession and answers when the
\* promise settles
UIConnect(in) ==
  /\ in.tabId = InspectedTab
  /\ \E t \in Ws : readyState[t] = "NONE"
  /\ Apply(connectToSession(State, in))
  /\ awaiting' = awaiting \cup {newWs(teardownCurrent(State))}
  /\ UNCHANGED <<connectionStatus, statusPollTimer, replies, closedConsumed,
                 earlierConnects>>

\* the response to CONNECT_SESSION arrives: success iff the promise resolved
UIConnectResponse(ws) ==
  /\ ws \in awaiting
  /\ promise[ws] \in {"resolved", "rejected"}
  /\ ApplyUi(uiConnectToSession(Ui, promise[ws] = "resolved", params[ws]))
  /\ awaiting' = awaiting \ {ws}
  /\ Apply(State)
  /\ UNCHANGED <<replies, closedConsumed, earlierConnects>>

\* the panel calls disconnect(): DISCONNECT_SESSION reaches the background,
\* whose handler calls disconnectSession and acknowledges
UIDisconnect ==
  /\ Cardinality(replies) < MaxReplies
  /\ Apply(disconnectSession(State))
  /\ replies' = replies \cup {[kind |-> "disconnect", status |-> NotConnected]}
  /\ UNCHANGED <<connectionStatus, statusPollTimer, awaiting, closedConsumed,
                 earlierConnects>>

\* the armed poll interval fires: GET_CONNECTION_STATUS reaches the
\* background, which answers with getConnectionStatus()
PollFire ==
  /\ statusPollTimer
  /\ Cardinality(replies) < MaxReplies
  /\ replies' = replies \cup {[kind |-> "poll", status |-> getConnectionStatus(State)]}
  /\ Apply(State)
  /\ UNCHANGED <<connectionStatus, statusPollTimer, awaiting, closedConsumed,
                 earlierConnects>>

\* the panel calls getConnectionStatus()
UIGetStatus ==
  /\ Cardinality(replies) < MaxReplies
  /\ replies' = replies \cup {[kind |-> "get", status |-> getConnectionStatus(State)]}
  /\ Apply(State)
  /\ UNCHANGED <<connectionStatus, statusPollTimer, awaiting, closedConsumed,
                 earlierConnects>>

\* a response arrives at the panel and the awaiting function continues
Continue(u, r) ==
  IF r.kind = "poll" THEN pollCallback(u, r.status)
  ELSE IF r.kind = "get" THEN uiGetConnectionStatus(u, r.status)
  ELSE disconnect(u)

UIResponse(r) ==
  /\ r \in replies
  /\ ApplyUi(Continue(Ui, r))
  /\ replies' = replies \ {r}
  /\ Apply(State)
  /\ UNCHANGED <<awaiting, closedConsumed, earlierConnects>>

\* a CONNECTION_CLOSED message arrives: the panel's listener calls
\* handleConnectionClosed()
UIConnectionClosed ==
  /\ ClosedInFlight > 0
  /\ ApplyUi(handleConnectionClosed(Ui))
  /\ closedConsumed' = closedConsumed + 1
  /\ Apply(State)
  /\ UNCHANGED <<replies, awaiting, earlierConnects>>

\* a CONNECTION_CLOSED message is lost (delivery is best-effort)
ClosedLost ==
  /\ ClosedInFlight > 0
  /\ closedConsumed' = closedConsumed + 1
  /\ Apply(State)
  /\ UNCHANGED <<connectionStatus, statusPollTimer, replies, awaiting,
                 earlierConnects>>

\* the panel driving the background: connects and disconnects come from the
\* panel, the transports open, fail and close, the inspected tab changes
UINext ==
  \/ \E in \in ConnectInputs : UIConnect(in)
  \/ \E ws \in Ws : UIConnectResponse(ws)
  \/ UIDisconnect
  \/ PollFire
  \/ UIGetStatus
  \/ \E r \in Replies : UIResponse(r)
  \/ UIConnectionClosed
  \/ ClosedLost
  \/ \E ws \in Ws : OnOpen(ws)
  \/ \E ws \in Ws : OnError(ws)
  \/ \E ws \in Ws : OnClose(ws)
  \/ \E tabId \in Tabs : UpdateConnectedTab(tabId)

UISpec == Init /\ [][UINext]_vars

TypeOK ==
  /\ currentConnection.ws \in Ws \cup {null}
  /\ heartbeatInterval \in TimerIds \cup {null}
  /\ heartbeatTimeout \in TimerIds \cup {null}
  /\ alarm \in BOOLEAN
  /\ \A t \in Ws : readyState[t] \in {"NONE", "CONNECTING", "OPEN", "CLOSING", "CLOSED"}

\* ------------------------------------------------------ derived notions
Status == getConnectionStatus(State)
Disconnected == [connected |-> FALSE, sessionName |-> "null", tabId |-> null]

Created == {t \in Ws : readyState[t] # "NONE"}

\* a connect call happened in this step: a WebSocket object came into being
ConnectStep == \E in \in ConnectInputs : Connect(in)
\* the open event of ws was delivered in this step
OpenStep(ws) == readyState[ws] = "CONNECTING" /\ readyState'[ws] = "OPEN"

HeartbeatStopped ==
  /\ heartbeatInterval = null
  /\ heartbeatTimeout = null
  /\ \A i \in TimerIds : intervals[i] = null /\ timeouts[i] = null

\* no Connection, no heartbeat timer armed, keepalive deregistered
Idle ==
  /\ currentConnection = NoConnection
  /\ \A i \in TimerIds : intervals[i] = null /\ timeouts[i] = null
  /\ ~alarm

\* a Connection is live while the transport it was created for is open
LiveConnections == {t \in Ws : readyState[t] = "OPEN"}

\* ------------------------------------------------------------------ C1
\* C1 (as claimed): at most one Connection is live at any time, and a connect
\* issued while a Connection exists has stopped the heartbeat, deregistered
\* the keepalive, closed the old transport and cleared the slot when the new
\* transport is created.
C1_SingleLiveConnection ==
  /\ [](Cardinality(LiveConnections) <= 1)
  /\ [][ \A old \in Ws :
           (currentConnection.ws = old /\ ConnectStep) =>
             /\ HeartbeatStopped'
             /\ ~alarm'
             /\ readyState'[old] \in {"CLOSING", "CLOSED"}
             /\ currentConnection' = NoConnection ]_vars

\* ------------------------------------------------------------------ C2
\* exactly two connect calls were made, for different sessions
TwoConnects ==
  /\ Created = {1, 2}
  /\ params[1].sessionName # params[2].sessionName
\* nothing of the first transport is pending and the second one is open
EventsDelivered ==
  /\ readyState[1] # "CONNECTING" /\ ~closePending[1]
  /\ readyState[2] = "OPEN" /\ ~closePending[2]

\* C2 (as claimed): after two connect calls for different sessions, once the
\* events of the first transport are all delivered and the second transport
\* has opened, the slot holds the second call's Connection and the first
\* transport is closed.
C2_SecondConnectWins ==
  (TwoConnects /\ EventsDelivered) =>
     /\ currentConnection = [ws |-> 2, sessionName |-> params[2].sessionName,
                             port |-> params[2].port, tabId |-> currentConnection.tabId]
     /\ readyState[1] = "CLOSED"

\* ------------------------------------------------------------------ C3
\* C3: when an armed pong-timeout fires (a ping went out and no pong cleared
\* the timeout), the transport it watches is closed and getStatus() reports
\* connected:false; and getStatus() turns from false to true only in a step
\* that delivers the open event of a transport.
C3_TimeoutDisconnects ==
  /\ [][ \A id \in TimerIds :
           PongTimeout(id) =>
             /\ readyState'[timeouts[id]] \in {"CLOSING", "CLOSED"}
             /\ ~Status'.connected ]_vars
  /\ [][ (~Status.connected /\ Status'.connected) =>
           \E ws \in Ws : OpenStep(ws) ]_vars

\* the pong-timeout of the installed Connection has fired: the handle is
\* still set, the timer is gone, the transport is closing
C3_Witness ==
  /\ heartbeatTimeout # null /\ timeouts[heartbeatTimeout] = null
  /\ currentConnection # NoConnection
  /\ readyState[currentConnection.ws] = "CLOSING"
  /\ ~Status.connected

\* ------------------------------------------------------------------ C4
\* C4: getStatus() reports connected exactly when a Connection is installed
\* and its transport is open, then with the session name that Connection was
\* opened for and its current tab id, otherwise the all-null disconnected
\* status; right after the open event of connect(s, port, t) it reports
\* {connected:true, sessionName:s, tabId:t}, and after updateTab(t2) on a
\* connected manager it reports t2.
C4_StatusReflectsConnection ==
  /\ [] /\ Status.connected <=>
             (currentConnection # NoConnection
              /\ readyState[currentConnection.ws] = "OPEN")
        /\ Status.connected =>
             /\ Status.sessionName = params[currentConnection.ws].sessionName
             /\ Status.tabId = currentConnection.tabId
             /\ Status.tabId \in Tabs
        /\ ~Status.connected => Status = Disconnected
  /\ [][ \A ws \in Ws :
           OnOpen(ws) =>
             Status' = [connected |-> TRUE,
                        sessionName |-> params[ws].sessionName,
                        tabId |-> params[ws].tabId] ]_vars
  /\ [][ \A t \in Tabs :
           (Status.connected /\ UpdateConnectedTab(t)) =>
             Status' = [Status EXCEPT !.tabId = t] ]_vars

\* Scenario A with a later tab change: connected to sessionX, tab moved to 43
C4_Witness ==
  /\ Status = [connected |-> TRUE, sessionName |-> "sessionX", tabId |-> 43]
  /\ params[currentConnection.ws].tabId = 42

\* ------------------------------------------------------------------ C5
AfterDisconnect == disconnectSession(State)

\* C5 (as claimed): from every state disconnect() leaves the slot empty, the
\* heartbeat stopped, the keepalive deregistered and the status all-null
\* disconnected; with no Connection it changes nothing; and a second
\* disconnect() changes nothing more.
C5_DisconnectIdempotent ==
  /\ AfterDisconnect.currentConnection = NoConnection
  /\ AfterDisconnect.heartbeatInterval = null
  /\ AfterDisconnect.heartbeatTimeout = null
  /\ \A i \in TimerIds : AfterDisconnect.intervals[i] = null
                         /\ AfterDisconnect.timeouts[i] = null
  /\ ~AfterDisconnect.alarm
  /\ getConnectionStatus(AfterDisconnect) = Disconnected
  /\ currentConnection = NoConnection => AfterDisconnect = State
  /\ disconnectSession(AfterDisconnect) = AfterDisconnect

\* ------------------------------------------------------------------ C6
\* the transport of ws was established: its open event resolved the connect
Established(ws) == promise[ws] = "resolved"

\* what the close path does to the manager: slot cleared, heartbeat stopped,
\* keepalive deregistered, one CONNECTION_CLOSED emitted for ws
ClosedAndNotified(ws) ==
  /\ currentConnection' = NoConnection
  /\ HeartbeatStopped'
  /\ ~alarm'
  /\ notified'[ws] = notified[ws] + 1

\* C6 (as claimed): the close event and also the error event of an established
\* transport clear the slot, stop the heartbeat, deregister the
\* keepalive and emit CONNECTION_CLOSED.
C6_CloseOrErrorCleansUp ==
  [][ \A ws \in Ws :
        (Established(ws) /\ (OnClose(ws) \/ OnError(ws))) =>
          ClosedAndNotified(ws) ]_vars

\* C6 (amended): the close event of an established transport
\* clears the slot, stops the heartbeat, deregisters the keepalive and emits
\* CONNECTION_CLOSED; the error event leaves slot, heartbeat, keepalive and
\* notifications as they were and is followed by a queued close event.
C6_CloseCleansUpErrorDefers ==
  [][ \A ws \in Ws :
        /\ (Established(ws) /\ OnClose(ws)) => ClosedAndNotified(ws)
        /\ (Established(ws) /\ OnError(ws)) =>
             /\ UNCHANGED <<currentConnection, heartbeatInterval, heartbeatTimeout,
                            intervals, timeouts, alarm, notified>>
             /\ closePending'[ws] ]_vars

\* the installed Connection's transport failed, its error event was handled
\* and its close event is still to come: slot and heartbeat are still there
C6_Witness ==
  /\ currentConnection # NoConnection
  /\ readyState[currentConnection.ws] = "CLOSED"
  /\ closePending[currentConnection.ws]
  /\ heartbeatInterval # null
  /\ alarm

\* ------------------------------------------------------------------ C7
\* C7: an error event on a transport that has not opened rejects the promise
\* of its connect call and leaves the slot alone; a transport whose connect
\* was rejected is never the installed one; and a step creates a transport
\* only if it is a connectToSession call, which creates exactly one.
C7_ConnectFailedNoRetry ==
  /\ [][ \A ws \in Ws :
           (readyState[ws] = "CONNECTING" /\ OnError(ws)) =>
             /\ promise'[ws] = "rejected"
             /\ currentConnection' = currentConnection ]_vars
  /\ [](\A ws \in Ws :
           promise[ws] = "rejected" =>
             /\ currentConnection.ws # ws
             /\ readyState[ws] = "CLOSED")
  /\ [][ Created' # Created =>
           /\ ConnectStep
           /\ Cardinality(Created') = Cardinality(Created) + 1 ]_vars

\* a connect failed before opening while another Connection is installed
C7_Witness ==
  \E ws \in Ws :
    /\ promise[ws] = "rejected"
    /\ closePending[ws]
    /\ currentConnection # NoConnection

\* ------------------------------------------------------------------ C9
AfterKeepalive == handleKeepaliveAlarm(State)

\* C9: a keepalive firing that finds a Connection whose transport is not open
\* clears the slot, disarms the heartbeat interval and the pong-timeout,
\* deregisters the alarm and emits one CONNECTION_CLOSED; a firing that finds
\* the Connection's transport open changes nothing.
C9_KeepaliveStaleCleanup ==
  (alarm /\ currentConnection # NoConnection) =>
     IF readyState[currentConnection.ws] # "OPEN"
     THEN /\ AfterKeepalive.currentConnection = NoConnection
          /\ AfterKeepalive.heartbeatInterval = null
          /\ AfterKeepalive.heartbeatTimeout = null
          /\ \A i \in TimerIds : AfterKeepalive.intervals[i] = null
                                 /\ AfterKeepalive.timeouts[i] = null
          /\ ~AfterKeepalive.alarm
          /\ AfterKeepalive.notified =
               [notified EXCEPT ![currentConnection.ws] = @ + 1]
     ELSE AfterKeepalive = State

\* the keepalive has cleaned up a Connection whose transport was closing:
\* notified although the close event of that transport is still queued
C9_Witness ==
  \E ws \in Ws :
    /\ readyState[ws] = "CLOSING" /\ closePending[ws]
    /\ notified[ws] = 1
    /\ Idle

\* ------------------------------------------------------------------ C8
\* C8: whenever a transport has failed or is being closed (connect refused,
\* pong-timeout fired, close requested), the manager reaches the idle state
\* once the queued close event is delivered; a close event and a stale
\* detection by the keepalive each end in the idle state at once; and an
\* open event installs the Connection of its transport.
C8_FailuresEndIdle ==
  /\ (\E ws \in Ws : closePending[ws]) ~> Idle
  /\ [][ \A ws \in Ws : OnClose(ws) => Idle' ]_vars
  /\ [][ (KeepaliveAlarm /\ currentConnection # NoConnection
          /\ readyState[currentConnection.ws] # "OPEN") => Idle' ]_vars
  /\ [][ \A ws \in Ws :
           OnOpen(ws) => currentConnection'.ws = ws /\ Status'.connected ]_vars

\* the first connect failed and was cleaned up, the second one is installed
C8_Witness ==
  /\ promise[1] = "rejected" /\ readyState[1] = "CLOSED" /\ ~closePending[1]
  /\ currentConnection.ws = 2
  /\ Status.connected

\* ----------------------------------------------------------------- C10
\* a firing with no Connection leaves the alarm deregistered
KeepaliveSelfStops ==
  (alarm /\ currentConnection = NoConnection) => ~handleKeepaliveAlarm(State).alarm
\* the alarm becomes registered only in a step that opens a transport
AlarmStartsOnlyOnOpen ==
  (~alarm /\ alarm') => \E ws \in Ws : OpenStep(ws)

AfterMessage(ws, frame) == onmessage(State, ws, frame)

\* C13: whatever frame arrives on an open transport (unparsable, a tool
\* request that is answered or whose handling fails, a pong), the handler
\* leaves every transport's readyState and close queue and the Connection
\* slot as they were; an unparsable frame sends nothing and leaves the
\* heartbeat handles and timers as they were.
C13_FramesNeverClose ==
  \A ws \in Ws : \A frame \in Frames :
    readyState[ws] = "OPEN" =>
      /\ AfterMessage(ws, frame).readyState = readyState
      /\ AfterMessage(ws, frame).closePending = closePending
      /\ AfterMessage(ws, frame).currentConnection = currentConnection
      /\ frame = "malformed" =>
           /\ AfterMessage(ws, frame).lastSent = lastSent
           /\ AfterMessage(ws, frame).heartbeatInterval = heartbeatInterval
           /\ AfterMessage(ws, frame).heartbeatTimeout = heartbeatTimeout
           /\ AfterMessage(ws, frame).intervals = intervals
           /\ AfterMessage(ws, frame).timeouts = timeouts

\* a tool request was answered on the installed Connection's transport and a
\* pong has cleared the pending timeout: the Connection is still up
C13_Witness ==
  /\ lastSent = "response"
  /\ Status.connected
  /\ heartbeatTimeout = null

\* ----------------------------------------------------------------- C14
ArmedIntervals == {i \in TimerIds : intervals[i] # null}
ArmedTimeouts == {i \in TimerIds : timeouts[i] # null}
NoTimeoutArmed(s) == \A i \in TimerIds : s.timeouts[i] = null

\* C14: at most one heartbeat interval and at most one pong-timeout are armed;
\* a pong-timeout becomes armed only in a ping cycle that found its transport
\* open and sent a ping; after a pong and after stopHeartbeat no pong-timeout
\* is armed, and after a ping cycle on an open transport exactly the one it
\* armed is.
C14_OnePendingTimeout ==
  /\ [] /\ Cardinality(ArmedIntervals) <= 1
        /\ Cardinality(ArmedTimeouts) <= 1
        /\ NoTimeoutArmed(handlePong(State))
        /\ NoTimeoutArmed(stopHeartbeat(State))
        /\ \A i \in ArmedIntervals :
             readyState[intervals[i]] = "OPEN" =>
               LET t == heartbeatTick(State, intervals[i])
               IN  {j \in TimerIds : t.timeouts[j] # null} = {t.heartbeatTimeout}
  /\ [][ (\E j \in TimerIds : timeouts'[j] # null /\ timeouts'[j] # timeouts[j]) =>
           \E i \in TimerIds :
             /\ HeartbeatTick(i)
             /\ readyState[intervals[i]] = "OPEN"
             /\ lastSent' = "ping" ]_vars

\* a ping cycle has armed the pong-timeout of the installed Connection
C14_Witness ==
  /\ heartbeatTimeout # null
  /\ timeouts[heartbeatTimeout] = currentConnection.ws
  /\ lastSent = "ping"

\* ----------------------------------------------------------------- C15
\* C15 (as claimed): the close event of a transport other than the installed
\* Connection's leaves the slot, the heartbeat and the keepalive as they were.
C15_ForeignCloseHarmless ==
  [][ \A ws \in Ws :
        (currentConnection # NoConnection /\ currentConnection.ws # ws
         /\ OnClose(ws)) =>
          UNCHANGED <<currentConnection, heartbeatInterval, heartbeatTimeout,
                      intervals, timeouts, alarm>> ]_vars

\* ----------------------------------------------------------------- C17
\* C17 (as claimed): a pong received on a transport other than the installed
\* Connection's leaves the pending pong-timeout of that Connection armed.
C17_ForeignPongIgnored ==
  \A ws \in Ws :
    (readyState[ws] = "OPEN" /\ currentConnection # NoConnection
     /\ currentConnection.ws # ws) =>
       AfterMessage(ws, "pong").timeouts = timeouts

\* ----------------------------------------------------------------- C18
\* C18: while a Connection is installed, the heartbeat interval is armed with
\* that Connection's transport in its closure and the keepalive alarm is
\* registered.
C18_InstalledMeansGuarded ==
  currentConnection # NoConnection =>
    /\ heartbeatInterval # null
    /\ intervals[heartbeatInterval] = currentConnection.ws
    /\ ArmedIntervals = {heartbeatInterval}
    /\ alarm

\* a second Connection has replaced a first one: the heartbeat is bound to
\* the second transport
C18_Witness ==
  /\ currentConnection.ws = 2
  /\ readyState[1] \in {"OPEN", "CLOSING", "CLOSED"}
  /\ promise[1] = "resolved"

\* ----------------------------------------------------------------- C19
\* C19 (as claimed): after disconnect() no Connection is installed even if a
\* transport of an earlier connect opens: in every state, for every transport
\* still connecting once disconnect() has run, its open event installs
\* nothing.
C19_DisconnectCancelsConnect ==
  \A ws \in Ws :
    disconnectSession(State).readyState[ws] = "CONNECTING" =>
      onopen([disconnectSession(State) EXCEPT !.readyState[ws] = "OPEN"], ws)
        .currentConnection = NoConnection

\* ----------------------------------------------------------------- C20
\* C20 (as claimed): at most one CONNECTION_CLOSED is emitted on account of
\* one transport, and none is emitted while the slot holds a different
\* Connection whose transport is open.
C20_NotifiedOnce ==
  /\ [](\A ws \in Ws : notified[ws] <= 1)
  /\ [][ \A ws \in Ws :
           notified'[ws] > notified[ws] =>
             ~(/\ currentConnection # NoConnection
               /\ currentConnection.ws # ws
               /\ readyState[currentConnection.ws] = "OPEN") ]_vars

\* ----------------------------------------------------------------- C11
PollResponse(r) == r.kind = "poll" /\ UIResponse(r)

\* C11: when the answer of a poll arrives, then if the cache says connected
\* and the answer says not connected, the cache becomes NotConnected and the
\* poll timer is stopped, no CONNECTION_CLOSED being consumed by that step;
\* otherwise the answer becomes the cache whatever it holds (a changed tab
\* id included) and the poll timer is left as it was.
C11_PollReconciles ==
  [][ \A r \in Replies :
        PollResponse(r) =>
          /\ closedConsumed' = closedConsumed
          /\ IF connectionStatus.connected /\ ~r.status.connected
             THEN connectionStatus' = NotConnected /\ ~statusPollTimer'
             ELSE connectionStatus' = r.status /\ UNCHANGED statusPollTimer ]_vars

\* the cache holds a tab id other than the one the panel connected with, the
\* panel has received no CONNECTION_CLOSED, and the answer of a poll taken
\* after the Connection was lost is on its way to it
C11_Witness ==
  /\ connectionStatus.connected
  /\ connectionStatus.tabId # InspectedTab
  /\ closedConsumed = 0
  /\ [kind |-> "poll", status |-> NotConnected] \in replies

\* ----------------------------------------------------------------- C16
\* C16 (as claimed): whenever the cache says connected, the poll timer is
\* armed.
C16_ConnectedMeansPolling ==
  connectionStatus.connected => statusPollTimer

\* ----------------------------------------------------------------- C12
\* nothing is under way: no response, no CONNECTION_CLOSED, no connect, and
\* no transport that is connecting or has a close event queued
Quiescent ==
  /\ replies = {}
  /\ awaiting = {}
  /\ ClosedInFlight = 0
  /\ \A t \in Ws : readyState[t] # "CONNECTING" /\ ~closePending[t]

\* C12 (as claimed), in the form a finite run refutes: polls are the only
\* thing that moves the cache without a further event, so once nothing is
\* under way and the poll timer is stopped, the cache must already equal the
\* background's status; otherwise it never will.
C12_StalenessBounded ==
  (Quiescent /\ ~statusPollTimer) => connectionStatus = Status

====
